---- MODULE Spec2Model ----
(***************************************************************************)
(* PageRank engine of the repository:                                      *)
(*   src/IR/Assignment2/pr.py              page_rank                       *)
(*   src/IR/Assignment5/topic_pagerank.py  build_incoming_links,           *)
(*                                         build_topic_vector,             *)
(*                                         topic_pagerank                  *)
(* and, beside it:                                                         *)
(*   src/IR/Assignment4/wc.py              WebCrawler.crawl                *)
(*   src/CSDF/A5/log.py                    LogAnalyzer                     *)
(*   src/CSDF/A3/wificode.py               analyze_log_file                *)
(*                                                                         *)
(* Python floats are modelled as exact rationals [n, d] in lowest terms,   *)
(* so a sum that the code keeps "approximately 1" is exactly 1 here.       *)
(* A dict is a function over its key set (insertion order is not           *)
(* modelled); a list of links is a sequence, so repeated targets count.    *)
(***************************************************************************)
EXTENDS Integers, Sequences, FiniteSets, TLC

(* ------------------------------ bounds -------------------------------- *)
\* largest number of links (list entries) in an input graph
MaxEdges == 3
\* largest iteration budget (max_iterations / max_iter) passed to a solver
MaxIter == 2
\* largest number of links in an input graph of the runs checked for
\* termination
MaxLiveEdges == 1
\* largest iteration budget of the runs on the two-node graph
MaxScenIter == 4
\* largest max_pages of a WebCrawler
MaxPages == 3
\* largest number of events a LogAnalyzer is given
MaxEvents == 4
\* largest number of lines of a Wi-Fi log
MaxLines == 3
\* largest fail_threshold and largest window_minutes of analyze_log_file
MaxThreshold == 3
MaxWindow == 2

(* ----------------------------- constants ------------------------------ *)
\* a float of the decimal runs is a whole number of units of 1 / Scale
Scale == 100000000
\* max_iterations of page_rank when the caller passes none
DefaultMaxIterations == 100
\* timedelta.seconds is the part of a difference below one day
SecondsPerDay == 86400
\* is_rapid_succession: (times[-1] - times[0]).seconds <= 60
RapidSeconds == 60
\* timedelta(minutes=window_minutes), in seconds
SecondsPerMinute == 60

(* ------------------------- rational arithmetic ------------------------ *)
RECURSIVE Gcd(_, _)
Gcd(a, b) == IF b = 0 THEN a ELSE Gcd(b, a % b)

Abs(x) == IF x < 0 THEN -x ELSE x

\* the rational n/d (d > 0) in lowest terms
Rat(n, d) == LET g == Gcd(Abs(n), d) IN [n |-> n \div g, d |-> d \div g]

Zero == [n |-> 0, d |-> 1]
One == [n |-> 1, d |-> 1]
Half == [n |-> 1, d |-> 2]

Lcm(a, b) == (a \div Gcd(a, b)) * b

\* The operations are functions on pairs of values, so that an operand is
\* evaluated once however often the result is used.
RatT == [n : Int, d : Nat]

AddF[p \in RatT \X RatT] ==
    LET l == Lcm(p[1].d, p[2].d)
    IN Rat(p[1].n * (l \div p[1].d) + p[2].n * (l \div p[2].d), l)

MulF[p \in RatT \X RatT] ==
    LET a == Rat(p[1].n, p[2].d)
        b == Rat(p[2].n, p[1].d)
    IN [n |-> a.n * b.n, d |-> a.d * b.d]

NegF[x \in RatT] == [n |-> -x.n, d |-> x.d]
AbsF[x \in RatT] == [n |-> Abs(x.n), d |-> x.d]
\* 1 / x for x > 0
InvF[x \in RatT] == [n |-> x.d, d |-> x.n]

LtF[p \in RatT \X RatT] ==
    LET l == Lcm(p[1].d, p[2].d)
    IN p[1].n * (l \div p[1].d) < p[2].n * (l \div p[2].d)

RAdd(x, y) == AddF[<<x, y>>]
RSub(x, y) == AddF[<<x, NegF[y]>>]
RMul(x, y) == MulF[<<x, y>>]
\* x / k for an integer k > 0
RDivInt(x, k) == MulF[<<x, Rat(1, k)>>]
\* x / y for a rational y > 0
RDiv(x, y) == MulF[<<x, InvF[y]>>]
RAbs(x) == AbsF[x]
RLt(x, y) == LtF[<<x, y>>]
RLe(x, y) == ~LtF[<<y, x>>]

\* sum(f[x] for x in S)
RECURSIVE RSum(_, _)
RSum(f, S) == IF S = {} THEN Zero
              ELSE LET x == CHOOSE y \in S : TRUE IN RAdd(f[x], RSum(f, S \ {x}))

(* ------------------------------ inputs -------------------------------- *)
\* page identifiers; "C" is never a key of an input graph, so a link to it
\* is a link to a page that is not a key of the mapping
Ids == {"A", "B", "C"}
KeyIds == {"A", "B"}

EmptyMap == [x \in {} |-> Zero]

LinkLists == UNION {[1..k -> Ids] : k \in 0..MaxEdges}

\* sum(len(links) for links in graph.values())
RECURSIVE TotalLinks(_, _)
TotalLinks(g, K) == IF K = {} THEN 0
                    ELSE LET k == CHOOSE x \in K : TRUE
                         IN Len(g[k]) + TotalLinks(g, K \ {k})

\* the graphs a caller passes in: {page: [list_of_outbound_links]}
Graphs == {g \in UNION {[K -> LinkLists] : K \in SUBSET KeyIds} :
              TotalLinks(g, DOMAIN g) <= MaxEdges}

Dampings == {Zero, Half}
Tolerances == {Rat(1, 4), Rat(1, 100)}

\* the vector with weights a, b, c for "A", "B", "C"
Vec(a, b, c) == [p \in Ids |-> IF p = "A" THEN a ELSE IF p = "B" THEN b ELSE c]

\* teleportation vectors handed to topic_pagerank: distributions over one,
\* two and three ids, vectors of total less than 1, and vectors that leave
\* ids out
TopicVectors ==
    { Vec(One, Zero, Zero), Vec(Zero, One, Zero), Vec(Half, Half, Zero),
      Vec(Half, Zero, Half), Vec(Rat(1, 3), Rat(1, 3), Rat(1, 3)),
      Vec(Half, Zero, Zero), [p \in {"A"} |-> One], EmptyMap }

\* order in which a dict lists its keys: the input lists "A" before "B",
\* and a key added later comes last
KeyOrder == <<"A", "B", "C">>

KeysOf(g) == SelectSeq(KeyOrder, LAMBDA k : k \in DOMAIN g)

\* the targets of a link list that are not keys of g
MissingIn(g, outs) == {outs[i] : i \in 1..Len(outs)} \ DOMAIN g

\* dict.get(key, 0.0)
Get(m, key) == IF key \in DOMAIN m THEN m[key] ELSE Zero

(* ------------------------------ page_rank ----------------------------- *)
\* mutant: 1.0 / num_pages computed once, before the comprehension
InitialRanks_Hoisted(keys) ==
    IF keys = {} THEN [exc |-> "ZeroDivisionError"]
    ELSE [exc |-> "none", ranks |-> [page \in keys |-> Rat(1, Cardinality(keys))]]

\* ranks = {page: 1.0 / num_pages for page in graph}: the division is done
\* once per page, so it is never done for an empty graph
InitialRanks(keys) ==
    [exc |-> "none", ranks |-> [page \in keys |-> Rat(1, Cardinality(keys))]]

\* number of times target occurs in a list of links
Count(links, target) == Cardinality({i \in 1..Len(links) : links[i] = target})

\* mutant: the sign of the random-jump term is wrong
PrBase_Negated(d, num_pages) == RDivInt(RSub(d, One), num_pages)

\* step 1: new_ranks[page] = (1 - damping_factor) / num_pages
PrBase(d, num_pages) == RDivInt(RSub(One, d), num_pages)

\* mutant: the rank of a page without links is not redistributed
PrAdds_DanglingDropped(g, rk, d, page, other) ==
    IF Len(g[page]) > 0
    THEN RMul(Rat(Count(g[page], other), 1), RMul(d, RDivInt(rk[page], Len(g[page]))))
    ELSE Zero

\* mutant: a page without links keeps its rank instead of spreading it
PrAdds_DanglingToSelf(g, rk, d, page, other) ==
    IF Len(g[page]) > 0
    THEN RMul(Rat(Count(g[page], other), 1), RMul(d, RDivInt(rk[page], Len(g[page]))))
    ELSE IF other = page THEN RMul(d, rk[page]) ELSE Zero

\* mutant: the rank of a page is not divided among its links
PrAdds_Undivided(g, rk, d, page, other) ==
    IF Len(g[page]) > 0
    THEN RMul(Rat(Count(g[page], other), 1), RMul(d, rk[page]))
    ELSE RMul(d, RDivInt(rk[page], Cardinality(DOMAIN g)))

\* mutant: a target listed more than once receives the share only once
PrAdds_OncePerTarget(g, rk, d, page, other) ==
    IF Len(g[page]) > 0
    THEN IF Count(g[page], other) > 0 THEN RMul(d, RDivInt(rk[page], Len(g[page]))) ELSE Zero
    ELSE RMul(d, RDivInt(rk[page], Cardinality(DOMAIN g)))

\* step 2: what page adds to new_ranks[other], its share once for every
\* occurrence of other in its links, or its rank / num_pages if it has no links
PrAdds(g, rk, d, page, other) ==
    IF Len(g[page]) > 0
    THEN RMul(Rat(Count(g[page], other), 1), RMul(d, RDivInt(rk[page], Len(g[page]))))
    ELSE RMul(d, RDivInt(rk[page], Cardinality(DOMAIN g)))

\* step 3: sum(abs(new_ranks[page] - ranks[page]) for page in graph)
L1Diff(new, old, keys) == RSum([page \in keys |-> RAbs(RSub(new[page], old[page]))], keys)

\* one pass of the loop body of page_rank: the new ranks and total_diff, or
\* the KeyError of new_ranks[linked_page] += ... for a target that is no key
PageRankPass(g, rk, d) ==
    LET new_ranks == [other \in DOMAIN g |->
                        RAdd(PrBase(d, Cardinality(DOMAIN g)),
                             RSum([page \in DOMAIN g |-> PrAdds(g, rk, d, page, other)],
                                  DOMAIN g))]
    IN IF \E page \in DOMAIN g : MissingIn(g, g[page]) # {}
       THEN [exc |-> "KeyError"]
       ELSE [exc |-> "none", ranks |-> new_ranks,
             diff |-> L1Diff(new_ranks, rk, DOMAIN g)]

\* mutant: the loop ends on convergence only
LoopDone_NoBudget(i, maxit, brk) == brk

\* the loop ends: break was executed or range(max_iterations) is used up
LoopDone(i, maxit, brk) == brk \/ i >= maxit

\* the for loop of page_rank from pass i on
RECURSIVE PageRankLoop(_, _, _, _, _, _)
PageRankLoop(g, rk, d, maxit, t, i) ==
    IF LoopDone(i, maxit, FALSE) THEN [exc |-> "none", ranks |-> rk, it |-> i]
    ELSE LET r == PageRankPass(g, rk, d)
         IN IF r.exc # "none" THEN [exc |-> r.exc, it |-> i]
            ELSE IF RLt(r.diff, t) THEN [exc |-> "none", ranks |-> r.ranks, it |-> i + 1]
            ELSE PageRankLoop(g, r.ranks, d, maxit, t, i + 1)

\* page_rank(graph, damping_factor, max_iterations, tolerance) as a function
\* of its arguments: what it returns or raises, and the passes it made
page_rank(g, d, maxit, t) ==
    LET init == InitialRanks(DOMAIN g)
    IN IF init.exc # "none" THEN [exc |-> init.exc, it |-> 0]
       ELSE PageRankLoop(g, init.ranks, d, maxit, t, 0)

(* ------------------------- build_incoming_links ----------------------- *)
\* mutant: a source is listed once, however often it links to dst
RECURSIVE SourcesOf_Once(_, _, _, _)
SourcesOf_Once(g, order, dst, j) ==
    IF j > Len(order) THEN <<>>
    ELSE (IF Count(g[order[j]], dst) > 0 THEN <<order[j]>> ELSE <<>>)
            \o SourcesOf_Once(g, order, dst, j + 1)

\* the sources of the links to dst, in dict order, one per occurrence
RECURSIVE SourcesOf(_, _, _, _)
SourcesOf(g, order, dst, j) ==
    IF j > Len(order) THEN <<>>
    ELSE [i \in 1..Count(g[order[j]], dst) |-> order[j]] \o SourcesOf(g, order, dst, j + 1)

\* the inner loop of build_incoming_links for one source whose targets are
\* all keys: incoming[dst].append(src) for the targets from the i-th on
RECURSIVE AppendSource(_, _, _, _)
AppendSource(inc, src, outs, i) ==
    IF i > Len(outs) THEN inc
    ELSE AppendSource([inc EXCEPT ![outs[i]] = Append(@, src)], src, outs, i + 1)

\* the outer loop over graph.items() from the j-th key on
RECURSIVE IncomingLoop(_, _, _, _)
IncomingLoop(g, order, inc, j) ==
    IF j > Len(order) THEN inc
    ELSE IncomingLoop(g, order, AppendSource(inc, order[j], g[order[j]], 1), j + 1)

\* mutant: the missing targets are added and the index is returned
build_incoming_links_NoRaise(g) ==
    LET added == UNION {MissingIn(g, g[k]) : k \in DOMAIN g}
        full == [n \in DOMAIN g \cup added |-> IF n \in DOMAIN g THEN g[n] ELSE <<>>]
    IN [exc |-> "none",
        incoming |-> [n \in DOMAIN full |-> SourcesOf(full, KeysOf(full), n, 1)],
        nodes |-> DOMAIN full,
        graph |-> full]

\* build_incoming_links(graph).  A destination that is no key is added to
\* graph while graph.items() is being iterated, so the next step of that
\* iteration raises RuntimeError (dictionary changed size during iteration):
\* the keys added are the missing targets of the first source that has one.
build_incoming_links(g) ==
    LET order == KeysOf(g)
        bad == {j \in 1..Len(order) : MissingIn(g, g[order[j]]) # {}}
    IN IF bad = {}
       THEN [exc |-> "none",
             incoming |-> [n \in DOMAIN g |-> SourcesOf(g, order, n, 1)],
             nodes |-> DOMAIN g,
             graph |-> g]
       ELSE LET first == CHOOSE j \in bad : \A k \in bad : j <= k
                added == MissingIn(g, g[order[first]])
            IN [exc |-> "RuntimeError",
                graph |-> [n \in DOMAIN g \cup added |->
                             IF n \in DOMAIN g THEN g[n] ELSE <<>>]]

(* --------------------------- topic_pagerank --------------------------- *)
\* mutant: the dangling mass is left out
DanglingSum_Dropped(out_deg, rk) == Zero

\* mutant: only half of the dangling mass is handed on
DanglingSum_Halved(out_deg, rk) ==
    RMul(Half, RSum(rk, {n \in DOMAIN out_deg : out_deg[n] = 0}))

\* dangling_sum = sum(ranks[n] for n, d in out_degree.items() if d == 0)
DanglingSum(out_deg, rk) == RSum(rk, {n \in DOMAIN out_deg : out_deg[n] = 0})

\* new_ranks[p] = (1.0 - damping) * topic_vector.get(p, 0.0)
TeleportBase(tv, d, p) == RMul(RSub(One, d), Get(tv, p))

\* mutant: a source hands its whole rank to every page it links to
RankSum_Undivided(incoming, out_deg, rk, p) ==
    LET inc == IF p \in DOMAIN incoming THEN incoming[p] ELSE <<>>
    IN RSum([i \in 1..Len(inc) |-> rk[inc[i]]], 1..Len(inc))

\* rank_sum for p: ranks[q] / dq for every q of incoming.get(p, []) with dq > 0
RankSum(incoming, out_deg, rk, p) ==
    LET inc == IF p \in DOMAIN incoming THEN incoming[p] ELSE <<>>
        Share(q) == LET dq == IF q \in DOMAIN out_deg THEN out_deg[q] ELSE 0
                    IN IF dq > 0 THEN RDivInt(rk[q], dq) ELSE Zero
    IN RSum([i \in 1..Len(inc) |-> Share(inc[i])], 1..Len(inc))

\* mutant: the dangling mass is split evenly over the nodes
TopicPass_UniformDangling(g, nds, out_deg, rk, tv, d) ==
    LET dangling_mass == DanglingSum(out_deg, rk)
        built == build_incoming_links(g)
        uniform_ranks == [p \in nds |->
                            RAdd(TeleportBase(tv, d, p),
                                 RMul(d, RAdd(RankSum(built.incoming, out_deg, rk, p),
                                              RDivInt(dangling_mass, Cardinality(nds)))))]
    IN IF built.exc # "none"
       THEN [exc |-> built.exc, graph |-> built.graph]
       ELSE [exc |-> "none", graph |-> built.graph, ranks |-> uniform_ranks,
             diff |-> L1Diff(uniform_ranks, rk, nds)]

\* one pass of the loop body of topic_pagerank
TopicPass(g, nds, out_deg, rk, tv, d) ==
    LET dangling_sum == DanglingSum(out_deg, rk)
        built == build_incoming_links(g)
        new_ranks == [p \in nds |->
                        RAdd(TeleportBase(tv, d, p),
                             RMul(d, RAdd(RankSum(built.incoming, out_deg, rk, p),
                                          RMul(dangling_sum, Get(tv, p)))))]
    IN IF built.exc # "none"
       THEN [exc |-> built.exc, graph |-> built.graph]
       ELSE [exc |-> "none", graph |-> built.graph, ranks |-> new_ranks,
             diff |-> L1Diff(new_ranks, rk, nds)]

\* mutant: the final normalisation is left out
Normalize_Skipped(rk) == rk

\* the final normalisation: s = sum(ranks.values()); if s > 0: divide by s
Normalize(rk) ==
    LET s == RSum(rk, DOMAIN rk)
    IN IF RLt(Zero, s) THEN [n \in DOMAIN rk |-> RDiv(rk[n], s)] ELSE rk

\* the for loop of topic_pagerank from pass i on; graph is the dict as the
\* passes so far have left it
RECURSIVE TopicLoop(_, _, _, _, _, _, _, _, _)
TopicLoop(g, nds, out_deg, rk, tv, d, t, maxit, i) ==
    IF LoopDone(i, maxit, FALSE)
    THEN [exc |-> "none", ranks |-> Normalize(rk), it |-> i, graph |-> g]
    ELSE LET r == TopicPass(g, nds, out_deg, rk, tv, d)
         IN IF r.exc # "none" THEN [exc |-> r.exc, it |-> i, graph |-> r.graph]
            ELSE IF RLt(r.diff, t)
                 THEN [exc |-> "none", ranks |-> Normalize(r.ranks), it |-> i + 1,
                       graph |-> r.graph]
                 ELSE TopicLoop(r.graph, nds, out_deg, r.ranks, tv, d, t, maxit, i + 1)

\* topic_pagerank(graph, pages, topic_vector, damping, tol, max_iter) as a
\* function of its arguments: what it returns or raises, the passes it made
\* and the graph it leaves behind
topic_pagerank(g, tv, d, t, maxit) ==
    LET init == InitialRanks(DOMAIN g)
    IN IF init.exc # "none" THEN [exc |-> init.exc, it |-> 0, graph |-> g]
       ELSE TopicLoop(g, DOMAIN g, [n \in DOMAIN g |-> Len(g[n])], init.ranks,
                      tv, d, t, maxit, 0)

(* ------------------------- build_topic_vector ------------------------- *)
\* str.lower() on the characters the model uses
LowerChar(c) == IF c = "M" THEN "m" ELSE IF c = "L" THEN "l" ELSE c
Lower(str) == [i \in 1..Len(str) |-> LowerChar(str[i])]

\* k in text, for strings as sequences of characters
Contains(text, k) ==
    \E i \in 1..(Len(text) + 1) :
        /\ i + Len(k) - 1 <= Len(text)
        /\ SubSeq(text, i, i + Len(k) - 1) = k

\* meta.get(field, '')
Field(meta, field) == IF field \in DOMAIN meta THEN meta[field] ELSE <<>>

\* the keywords and the text of a page, lower-cased, and whether some
\* keyword occurs in the text
Matches(pgs, topic_keywords, pid) ==
    LET kws == [i \in 1..Len(topic_keywords) |-> Lower(topic_keywords[i])]
        text == Lower(Field(pgs[pid], "title") \o <<" ">> \o Field(pgs[pid], "content"))
    IN \E i \in 1..Len(kws) : Contains(text, kws[i])

\* mutant: 1.0 / n computed once, before the comprehension
UniformFallback_Hoisted(pgs) ==
    IF DOMAIN pgs = {} THEN [exc |-> "ZeroDivisionError"]
    ELSE [exc |-> "none", value |-> [pid \in DOMAIN pgs |-> Rat(1, Cardinality(DOMAIN pgs))]]

\* mutant: no fallback, the raw weights are returned
UniformFallback_AllZero(pgs) ==
    [exc |-> "none", value |-> [pid \in DOMAIN pgs |-> Zero]]

\* the vector returned when total == 0.0: 1.0 / n is computed once per page
UniformFallback(pgs) ==
    [exc |-> "none", value |-> [pid \in DOMAIN pgs |-> Rat(1, Cardinality(DOMAIN pgs))]]

\* mutant: the raw weights are divided by the number of pages
Normalized_ByCount(v, total) ==
    [exc |-> "none", value |-> [pid \in DOMAIN v |-> RDivInt(v[pid], Cardinality(DOMAIN v))]]

\* the vector returned when total # 0.0
Normalized(v, total) ==
    [exc |-> "none", value |-> [pid \in DOMAIN v |-> RDiv(v[pid], total)]]

build_topic_vector(pgs, topic_keywords) ==
    LET v == [pid \in DOMAIN pgs |-> IF Matches(pgs, topic_keywords, pid) THEN One ELSE Zero]
        total == RSum(v, DOMAIN pgs)
    IN IF total = Zero THEN UniformFallback(pgs) ELSE Normalized(v, total)

\* page metadata: {'title': ..., 'content': ...}, a field may be absent
Metas == { [title |-> <<"M", "L">>, content |-> <<>>],
           [title |-> <<"m">>, content |-> <<"l">>],
           [content |-> <<"p", "r">>],
           [title |-> <<"x">>, content |-> <<"M", "l">>] }

PageMaps == UNION {[D -> Metas] : D \in SUBSET Ids}

KeywordLists == { <<>>,
                  << <<"M", "L">> >>,
                  << <<"m", " ", "l">> >>,
                  << <<"z">>, <<"P">> >>,
                  << <<"z">> >>,
                  << <<>> >> }

(* ------------------------------- state -------------------------------- *)
VARIABLES
    graph,         \* the caller's graph dict, shared by all calls
    graph0,        \* its value when the current call was entered
    pc,            \* "idle", "running", "returned", "raised"
    fn,            \* the function called: "page_rank", "topic_pagerank", ...
    damping,       \* damping_factor / damping
    tol,           \* tolerance / tol
    max_iter,      \* max_iterations / max_iter
    topic_vector,  \* topic_pagerank's teleportation vector
    rounding,      \* how a float operation is rounded: "exact" for rationals
    nodes,         \* topic_pagerank: list(graph.keys()) at entry
    out_degree,    \* topic_pagerank: out_degree
    ranks,         \* the local ranks
    prev_ranks,    \* ranks before the last pass
    it,            \* passes of the loop completed
    diff,          \* total_diff / diff of the last pass
    stopped,       \* the loop was left by break
    result,        \* the value returned
    exc,           \* the exception raised, "none" if none
    pages,         \* build_topic_vector: pages
    keywords,      \* build_topic_vector: topic_keywords
    web,           \* WebCrawler: the links _extract_links finds on each page
    max_pages,     \* WebCrawler.max_pages
    to_crawl,      \* WebCrawler.to_crawl, the frontier
    visited,       \* WebCrawler.visited
    requests,      \* WebCrawler: number of GET requests made for each URL
    events,          \* LogAnalyzer.events
    ip_activity,     \* LogAnalyzer.ip_activity
    user_activity,   \* LogAnalyzer.user_activity
    suspicious_ips,  \* LogAnalyzer.suspicious_ips
    attack_patterns, \* LogAnalyzer.attack_patterns
    wifi_log,        \* analyze_log_file: the lines of the file at log_file_path
    fail_threshold,  \* analyze_log_file: fail_threshold
    window_minutes,  \* analyze_log_file: window_minutes
    forensic_events, \* analyze_log_file: forensic_events
    mac_failures,    \* analyze_log_file: mac_failures
    blocked,         \* analyze_log_file: blocked
    summary,         \* analyze_log_file: the summary it returns
    new_ranks,       \* the dict new_ranks a pass is filling
    cursor,          \* statement-level runs: 0 between passes, else the index
                     \* of the next node of the loop over the nodes
    dangling_sum,    \* topic_pagerank: dangling_sum of the pass
    incoming         \* topic_pagerank: incoming of the pass

vars == <<graph, graph0, pc, fn, damping, tol, max_iter, topic_vector, rounding, nodes,
          out_degree, ranks, prev_ranks, it, diff, stopped, result, exc, pages, keywords,
          web, max_pages, to_crawl, visited, requests,
          events, ip_activity, user_activity, suspicious_ips, attack_patterns,
          wifi_log, fail_threshold, window_minutes, forensic_events, mac_failures,
          blocked, summary, new_ranks, cursor, dangling_sum, incoming>>

args == <<damping, tol, max_iter, topic_vector, rounding, nodes, out_degree>>
vecvars == <<pages, keywords>>
crawlvars == <<web, max_pages, to_crawl, visited, requests>>
logvars == <<events, ip_activity, user_activity, suspicious_ips, attack_patterns>>
wifivars == <<wifi_log, fail_threshold, window_minutes, forensic_events, mac_failures,
              blocked, summary>>
passvars == <<new_ranks, cursor, dangling_sum, incoming>>
appvars == <<crawlvars, logvars, wifivars, passvars>>

\* no crawler has been constructed
NoCrawler ==
    /\ web = EmptyMap
    /\ max_pages = 0
    /\ to_crawl = <<>>
    /\ visited = {}
    /\ requests = EmptyMap

\* no LogAnalyzer has been constructed
NoLog ==
    /\ events = EmptyMap
    /\ ip_activity = EmptyMap
    /\ user_activity = EmptyMap
    /\ suspicious_ips = {}
    /\ attack_patterns = EmptyMap

\* analyze_log_file has not been called
NoWifi ==
    /\ wifi_log = <<>>
    /\ fail_threshold = 0
    /\ window_minutes = 0
    /\ forensic_events = <<>>
    /\ mac_failures = EmptyMap
    /\ blocked = {}
    /\ summary = EmptyMap

\* no pass is under way
NoPass ==
    /\ new_ranks = EmptyMap
    /\ cursor = 0
    /\ dangling_sum = Zero
    /\ incoming = EmptyMap

NoApps == NoCrawler /\ NoLog /\ NoWifi /\ NoPass

NoFrame ==
    /\ pc = "idle"
    /\ fn = "none"
    /\ graph0 = graph
    /\ damping = Zero
    /\ tol = Zero
    /\ max_iter = 0
    /\ topic_vector = EmptyMap
    /\ rounding = "exact"
    /\ nodes = {}
    /\ out_degree = EmptyMap
    /\ ranks = EmptyMap
    /\ prev_ranks = EmptyMap
    /\ it = 0
    /\ diff = Zero
    /\ stopped = FALSE
    /\ result = EmptyMap
    /\ exc = "none"

Init ==
    /\ graph \in Graphs
    /\ NoFrame
    /\ pages = EmptyMap
    /\ keywords = <<>>
    /\ NoApps

(* ------------------------------ page_rank ----------------------------- *)
\* entry of page_rank up to the loop (lines 20-23)
Call_page_rank(d, maxit, t) ==
    /\ pc = "idle"
    /\ fn' = "page_rank"
    /\ graph0' = graph
    /\ damping' = d
    /\ max_iter' = maxit
    /\ tol' = t
    /\ topic_vector' = EmptyMap
    /\ rounding' = "exact"
    /\ nodes' = {}
    /\ out_degree' = EmptyMap
    /\ LET init == InitialRanks(DOMAIN graph)
       IN IF init.exc # "none"
          THEN pc' = "raised" /\ exc' = init.exc /\ ranks' = EmptyMap
          ELSE pc' = "running" /\ exc' = "none" /\ ranks' = init.ranks
    /\ prev_ranks' = EmptyMap
    /\ it' = 0
    /\ diff' = Zero
    /\ stopped' = FALSE
    /\ result' = EmptyMap
    /\ UNCHANGED <<graph, vecvars, appvars>>

\* mutant: the loop is left after every pass, whatever total_diff is
PageRankIter_BreakAlways ==
    /\ pc = "running"
    /\ fn = "page_rank"
    /\ ~LoopDone(it, max_iter, stopped)
    /\ \E r \in {PageRankPass(graph, ranks, damping)} :
          IF r.exc # "none"
          THEN /\ pc' = "raised"
               /\ exc' = r.exc
               /\ UNCHANGED <<ranks, prev_ranks, it, diff, stopped>>
          ELSE /\ ranks' = r.ranks
               /\ prev_ranks' = ranks
               /\ diff' = r.diff
               /\ it' = it + 1
               /\ stopped' = TRUE
               /\ UNCHANGED <<pc, exc>>
    /\ UNCHANGED <<graph, graph0, fn, args, result, vecvars, appvars>>

\* mutant: the loop is also left when total_diff equals the tolerance
PageRankIter_StopAtEqual ==
    /\ pc = "running"
    /\ fn = "page_rank"
    /\ ~LoopDone(it, max_iter, stopped)
    /\ \E r \in {PageRankPass(graph, ranks, damping)} :
          IF r.exc # "none"
          THEN /\ pc' = "raised"
               /\ exc' = r.exc
               /\ UNCHANGED <<ranks, prev_ranks, it, diff, stopped>>
          ELSE /\ ranks' = r.ranks
               /\ prev_ranks' = ranks
               /\ diff' = r.diff
               /\ it' = it + 1
               /\ stopped' = RLe(r.diff, tol)
               /\ UNCHANGED <<pc, exc>>
    /\ UNCHANGED <<graph, graph0, fn, args, result, vecvars, appvars>>

\* one iteration of the for loop of page_rank (lines 25-56)
PageRankIter ==
    /\ pc = "running"
    /\ fn = "page_rank"
    /\ ~LoopDone(it, max_iter, stopped)
    /\ \E r \in {PageRankPass(graph, ranks, damping)} :
          IF r.exc # "none"
          THEN /\ pc' = "raised"
               /\ exc' = r.exc
               /\ UNCHANGED <<ranks, prev_ranks, it, diff, stopped>>
          ELSE /\ ranks' = r.ranks
               /\ prev_ranks' = ranks
               /\ diff' = r.diff
               /\ it' = it + 1
               /\ stopped' = RLt(r.diff, tol)
               /\ UNCHANGED <<pc, exc>>
    /\ UNCHANGED <<graph, graph0, fn, args, result, vecvars, appvars>>

\* leaving the loop, by break or with the budget used up, and return ranks
PageRankReturn ==
    /\ pc = "running"
    /\ fn = "page_rank"
    /\ LoopDone(it, max_iter, stopped)
    /\ result' = ranks
    /\ pc' = "returned"
    /\ UNCHANGED <<graph, graph0, fn, args, ranks, prev_ranks, it, diff, stopped, exc, vecvars, appvars>>

(* --------------------------- topic_pagerank --------------------------- *)
\* entry of topic_pagerank up to the loop (lines 100-105)
Call_topic_pagerank(tv, d, t, maxit) ==
    /\ pc = "idle"
    /\ fn' = "topic_pagerank"
    /\ graph0' = graph
    /\ topic_vector' = tv
    /\ rounding' = "exact"
    /\ damping' = d
    /\ tol' = t
    /\ max_iter' = maxit
    /\ nodes' = DOMAIN graph
    /\ out_degree' = [n \in DOMAIN graph |-> Len(graph[n])]
    /\ LET init == InitialRanks(DOMAIN graph)
       IN IF init.exc # "none"
          THEN pc' = "raised" /\ exc' = init.exc /\ ranks' = EmptyMap
          ELSE pc' = "running" /\ exc' = "none" /\ ranks' = init.ranks
    /\ prev_ranks' = EmptyMap
    /\ it' = 0
    /\ diff' = Zero
    /\ stopped' = FALSE
    /\ result' = EmptyMap
    /\ UNCHANGED <<graph, vecvars, appvars>>

\* one iteration of the for loop of topic_pagerank (lines 107-132), with its
\* call of build_incoming_links(graph)
TopicIter ==
    /\ pc = "running"
    /\ fn = "topic_pagerank"
    /\ ~LoopDone(it, max_iter, stopped)
    /\ \E r \in {TopicPass(graph, nodes, out_degree, ranks, topic_vector, damping)} :
          /\ graph' = r.graph
          /\ IF r.exc # "none"
             THEN /\ pc' = "raised"
                  /\ exc' = r.exc
                  /\ UNCHANGED <<ranks, prev_ranks, it, diff, stopped>>
             ELSE /\ ranks' = r.ranks
                  /\ prev_ranks' = ranks
                  /\ diff' = r.diff
                  /\ it' = it + 1
                  /\ stopped' = RLt(r.diff, tol)
                  /\ UNCHANGED <<pc, exc>>
    /\ UNCHANGED <<graph0, fn, args, result, vecvars, appvars>>

\* mutant: the vector of the pass before the last is returned
TopicReturn_Previous ==
    /\ pc = "running"
    /\ fn = "topic_pagerank"
    /\ LoopDone(it, max_iter, stopped)
    /\ result' = Normalize(prev_ranks)
    /\ pc' = "returned"
    /\ UNCHANGED <<graph, graph0, fn, args, ranks, prev_ranks, it, diff, stopped, exc, vecvars, appvars>>

\* leaving the loop, the final normalisation and return (lines 134-139)
TopicReturn ==
    /\ pc = "running"
    /\ fn = "topic_pagerank"
    /\ LoopDone(it, max_iter, stopped)
    /\ result' = Normalize(ranks)
    /\ pc' = "returned"
    /\ UNCHANGED <<graph, graph0, fn, args, ranks, prev_ranks, it, diff, stopped, exc, vecvars, appvars>>

\* the caller is done with a call: its locals and the value it returned are
\* gone, the graph object remains and can be passed to the next call
Finish ==
    /\ pc \in {"returned", "raised"}
    /\ pc' = "idle"
    /\ fn' = "none"
    /\ graph0' = graph
    /\ damping' = Zero
    /\ tol' = Zero
    /\ max_iter' = 0
    /\ topic_vector' = EmptyMap
    /\ rounding' = "exact"
    /\ nodes' = {}
    /\ out_degree' = EmptyMap
    /\ ranks' = EmptyMap
    /\ prev_ranks' = EmptyMap
    /\ it' = 0
    /\ diff' = Zero
    /\ stopped' = FALSE
    /\ result' = EmptyMap
    /\ exc' = "none"
    /\ UNCHANGED <<graph, vecvars, appvars>>

Next ==
    \/ \E d \in Dampings, maxit \in 0..MaxIter, t \in Tolerances :
          Call_page_rank(d, maxit, t)
    \/ PageRankIter
    \/ PageRankReturn
    \/ \E tv \in TopicVectors, d \in Dampings, t \in Tolerances, maxit \in 0..MaxIter :
          Call_topic_pagerank(tv, d, t, maxit)
    \/ TopicIter
    \/ TopicReturn
    \/ Finish

Spec == Init /\ [][Next]_vars

\* a call that was entered runs to its end: the solver is one thread that
\* never waits
Step == PageRankIter \/ PageRankReturn \/ TopicIter \/ TopicReturn

InitLive == Init /\ TotalLinks(graph, DOMAIN graph) <= MaxLiveEdges

LiveSpec == InitLive /\ [][Next]_vars /\ WF_vars(Step)

(* ------------------- the passes, statement by statement --------------- *)
\* The loop bodies of page_rank and topic_pagerank with one step for every
\* iteration of their loop over the nodes, so that what a step reads and
\* writes is visible.  new_ranks, dangling_sum and incoming are locals of
\* one pass: they are written anew at the start of the next, and are kept
\* here only while a pass is under way.
\* page_rank, lines 26-32: new_ranks = {} and step 1
PrBegin ==
    /\ pc = "running"
    /\ fn = "page_rank"
    /\ ~LoopDone(it, max_iter, stopped)
    /\ cursor = 0
    /\ new_ranks' = [page \in DOMAIN graph |-> PrBase(damping, Cardinality(DOMAIN graph))]
    /\ cursor' = 1
    /\ UNCHANGED <<graph, graph0, pc, fn, args, ranks, prev_ranks, it, diff, stopped,
                   result, exc, vecvars, crawlvars, logvars, wifivars, dangling_sum,
                   incoming>>

\* page_rank, lines 35-45: step 2 for one page of graph.items()
PrDistribute ==
    /\ pc = "running"
    /\ fn = "page_rank"
    /\ cursor \in 1..Len(KeysOf(graph))
    /\ LET page == KeysOf(graph)[cursor]
       IN IF MissingIn(graph, graph[page]) # {}
          THEN /\ pc' = "raised"
               /\ exc' = "KeyError"
               /\ cursor' = 0
               /\ new_ranks' = EmptyMap
          ELSE /\ new_ranks' = [other \in DOMAIN new_ranks |->
                                  RAdd(new_ranks[other],
                                       PrAdds(graph, ranks, damping, page, other))]
               /\ cursor' = cursor + 1
               /\ UNCHANGED <<pc, exc>>
    /\ UNCHANGED <<graph, graph0, fn, args, ranks, prev_ranks, it, diff, stopped,
                   result, vecvars, crawlvars, logvars, wifivars, dangling_sum, incoming>>

\* page_rank, lines 47-56: step 3, ranks = new_ranks.copy() and the test
PrEnd ==
    /\ pc = "running"
    /\ fn = "page_rank"
    /\ cursor = Len(KeysOf(graph)) + 1
    /\ diff' = L1Diff(new_ranks, ranks, DOMAIN graph)
    /\ prev_ranks' = ranks
    /\ ranks' = new_ranks
    /\ it' = it + 1
    /\ stopped' = RLt(diff', tol)
    /\ cursor' = 0
    /\ new_ranks' = EmptyMap
    /\ UNCHANGED <<graph, graph0, pc, fn, args, result, exc, vecvars, crawlvars, logvars,
                   wifivars, dangling_sum, incoming>>

\* topic_pagerank, lines 108-116: dangling_sum, the teleportation base of
\* every node and the call of build_incoming_links(graph)
TpBegin ==
    /\ pc = "running"
    /\ fn = "topic_pagerank"
    /\ ~LoopDone(it, max_iter, stopped)
    /\ cursor = 0
    /\ LET built == build_incoming_links(graph)
       IN /\ graph' = built.graph
          /\ IF built.exc # "none"
             THEN /\ pc' = "raised"
                  /\ exc' = built.exc
                  /\ UNCHANGED <<cursor, incoming, new_ranks, dangling_sum>>
             ELSE /\ dangling_sum' = DanglingSum(out_degree, ranks)
                  /\ new_ranks' = [p \in nodes |->
                                     TeleportBase(topic_vector, damping, p)]
                  /\ incoming' = built.incoming
                  /\ cursor' = 1
                  /\ UNCHANGED <<pc, exc>>
    /\ UNCHANGED <<graph0, fn, args, ranks, prev_ranks, it, diff, stopped, result,
                   vecvars, crawlvars, logvars, wifivars>>

\* mutant: the sum for a node is taken over the values already written in
\* this pass where there are any
TpNode_InPlace ==
    /\ pc = "running"
    /\ fn = "topic_pagerank"
    /\ cursor \in 1..Len(KeysOf(graph))
    /\ LET p == KeysOf(graph)[cursor]
           seen == [q \in nodes |->
                      IF \E j \in 1..(cursor - 1) : KeysOf(graph)[j] = q
                      THEN new_ranks[q] ELSE ranks[q]]
       IN new_ranks' =
            [new_ranks EXCEPT ![p] =
               RAdd(@, RMul(damping,
                            RAdd(RankSum(incoming, out_degree, seen, p),
                                 RMul(dangling_sum, Get(topic_vector, p)))))]
    /\ cursor' = cursor + 1
    /\ UNCHANGED <<graph, graph0, pc, fn, args, ranks, prev_ranks, it, diff, stopped,
                   result, exc, vecvars, crawlvars, logvars, wifivars, dangling_sum,
                   incoming>>

\* topic_pagerank, lines 119-126: the contributions to one node p
TpNode ==
    /\ pc = "running"
    /\ fn = "topic_pagerank"
    /\ cursor \in 1..Len(KeysOf(graph))
    /\ LET p == KeysOf(graph)[cursor]
       IN new_ranks' =
            [new_ranks EXCEPT ![p] =
               RAdd(@, RMul(damping,
                            RAdd(RankSum(incoming, out_degree, ranks, p),
                                 RMul(dangling_sum, Get(topic_vector, p)))))]
    /\ cursor' = cursor + 1
    /\ UNCHANGED <<graph, graph0, pc, fn, args, ranks, prev_ranks, it, diff, stopped,
                   result, exc, vecvars, crawlvars, logvars, wifivars, dangling_sum,
                   incoming>>

\* topic_pagerank, lines 129-132: diff, ranks = new_ranks and the test
TpEnd ==
    /\ pc = "running"
    /\ fn = "topic_pagerank"
    /\ cursor = Len(KeysOf(graph)) + 1
    /\ diff' = L1Diff(new_ranks, ranks, nodes)
    /\ prev_ranks' = ranks
    /\ ranks' = new_ranks
    /\ it' = it + 1
    /\ stopped' = RLt(diff', tol)
    /\ cursor' = 0
    /\ new_ranks' = EmptyMap
    /\ dangling_sum' = Zero
    /\ incoming' = EmptyMap
    /\ UNCHANGED <<graph, graph0, pc, fn, args, result, exc, vecvars, crawlvars, logvars,
                   wifivars>>

NextSync ==
    \/ \E d \in Dampings, maxit \in 0..MaxIter, t \in Tolerances :
          Call_page_rank(d, maxit, t)
    \/ PrBegin
    \/ PrDistribute
    \/ PrEnd
    \/ PageRankReturn
    \/ \E tv \in TopicVectors, d \in Dampings, t \in Tolerances, maxit \in 0..MaxIter :
          Call_topic_pagerank(tv, d, t, maxit)
    \/ TpBegin
    \/ TpNode
    \/ TpEnd
    \/ TopicReturn
    \/ Finish

SpecSync == Init /\ [][NextSync]_vars

(* ------------------- runs on the two-node graph ----------------------- *)
\* A links to B, B has no links
GraphAB == [p \in {"A", "B"} |-> IF p = "A" THEN <<"B">> ELSE <<>>]

\* damping 0.85 is the default of both solvers
ScenDampings == {Half, Rat(17, 20)}
ScenTolerances == {Rat(1, 10), Rat(1, 20)}
ScenVectors == { [p \in {"A", "B"} |-> Half],
                 [p \in {"A", "B"} |-> IF p = "A" THEN One ELSE Zero] }

InitScen ==
    /\ graph = GraphAB
    /\ NoFrame
    /\ pages = EmptyMap
    /\ keywords = <<>>
    /\ NoApps

NextScen ==
    \/ \E d \in ScenDampings, maxit \in 0..MaxScenIter, t \in ScenTolerances :
          Call_page_rank(d, maxit, t)
    \/ PageRankIter
    \/ PageRankReturn
    \/ \E tv \in ScenVectors, d \in ScenDampings, t \in ScenTolerances,
           maxit \in 0..MaxScenIter :
          Call_topic_pagerank(tv, d, t, maxit)
    \/ TopicIter
    \/ TopicReturn
    \/ Finish

SpecScen == InitScen /\ [][NextScen]_vars

(* ------------------ build_incoming_links on its own ------------------- *)
\* a call of build_incoming_links(graph) (lines 48-68), on a fresh graph or
\* on the graph an earlier call has left: result is the pair it returns
Call_build_incoming_links ==
    /\ pc \in {"idle", "returned", "raised"}
    /\ fn \in {"none", "build_incoming_links"}
    /\ fn' = "build_incoming_links"
    /\ graph0' = graph
    /\ LET built == build_incoming_links(graph)
       IN /\ graph' = built.graph
          /\ IF built.exc # "none"
             THEN /\ pc' = "raised"
                  /\ exc' = built.exc
                  /\ result' = EmptyMap
             ELSE /\ pc' = "returned"
                  /\ exc' = "none"
                  /\ result' = <<built.incoming, KeysOf(built.graph)>>
    /\ UNCHANGED <<args, ranks, prev_ranks, it, diff, stopped, vecvars, appvars>>

NextLinks == Call_build_incoming_links

SpecLinks == Init /\ [][NextLinks]_vars

(* ------------------- runs on graphs without links --------------------- *)
\* every page is a key with an empty list of links
DanglingGraphs == UNION {[K -> {<<>>}] : K \in (SUBSET Ids) \ {{}}}

InitDangling ==
    /\ graph \in DanglingGraphs
    /\ NoFrame
    /\ pages = EmptyMap
    /\ keywords = <<>>
    /\ NoApps

NextDangling ==
    \/ \E d \in ScenDampings, maxit \in 0..MaxScenIter, t \in ScenTolerances :
          Call_page_rank(d, maxit, t)
    \/ PageRankIter
    \/ PageRankReturn
    \/ \E tv \in TopicVectors, d \in ScenDampings, t \in ScenTolerances,
           maxit \in 0..MaxScenIter :
          Call_topic_pagerank(tv, d, t, maxit)
    \/ TopicIter
    \/ TopicReturn
    \/ Finish

SpecDangling == InitDangling /\ [][NextDangling]_vars

(* --------------- page_rank in decimal arithmetic ---------------------- *)
\* The passes of page_rank on floats carried to eight decimal places: a rank
\* is a whole number of units of 1 / Scale, sums and differences are exact,
\* and every division or product is rounded down, to nearest or up.
Roundings == {"down", "nearest", "up"}

\* a / b for a >= 0, b > 0, rounded
FxDiv(a, b, mode) ==
    LET q == a \div b
        r == a % b
    IN IF r = 0 THEN q
       ELSE IF mode = "down" THEN q
       ELSE IF mode = "up" THEN q + 1
       ELSE IF 2 * r >= b THEN q + 1 ELSE q

\* the rational x times the decimal u
FxMul(x, u, mode) == FxDiv(x.n * u, x.d, mode)

\* the rational x as a decimal
FxOf(x, mode) == FxMul(x, Scale, mode)

\* sum(f[x] for x in S) of whole numbers
RECURSIVE ISum(_, _)
ISum(f, S) == IF S = {} THEN 0
              ELSE LET x == CHOOSE y \in S : TRUE IN f[x] + ISum(f, S \ {x})

\* ranks = {page: 1.0 / num_pages for page in graph}
FxInitialRanks(keys, mode) == [page \in keys |-> FxDiv(Scale, Cardinality(keys), mode)]

\* step 1: (1 - damping_factor) / num_pages
FxBase(d, num_pages, mode) == FxDiv(FxOf(RSub(One, d), mode), num_pages, mode)

\* mutant: the links of a page are not followed
FxAdds_LinksIgnored(g, rk, d, mode, page, other) ==
    IF Len(g[page]) > 0 THEN 0
    ELSE FxMul(d, FxDiv(rk[page], Cardinality(DOMAIN g), mode), mode)

\* step 2: what page adds to new_ranks[other]: damping_factor * share once
\* for every occurrence of other in its links, share = ranks[page] /
\* len(links), or with share = ranks[page] / num_pages if it has no links
FxAdds(g, rk, d, mode, page, other) ==
    IF Len(g[page]) > 0
    THEN Count(g[page], other) * FxMul(d, FxDiv(rk[page], Len(g[page]), mode), mode)
    ELSE FxMul(d, FxDiv(rk[page], Cardinality(DOMAIN g), mode), mode)

\* one pass of the loop body of page_rank
FxPageRankPass(g, rk, d, mode) ==
    LET fx_new == [other \in DOMAIN g |->
                     FxBase(d, Cardinality(DOMAIN g), mode)
                     + ISum([page \in DOMAIN g |-> FxAdds(g, rk, d, mode, page, other)],
                            DOMAIN g)]
    IN IF \E page \in DOMAIN g : MissingIn(g, g[page]) # {}
       THEN [exc |-> "KeyError"]
       ELSE [exc |-> "none", ranks |-> fx_new,
             diff |-> ISum([page \in DOMAIN g |-> Abs(fx_new[page] - rk[page])],
                           DOMAIN g)]

\* the graph of main
example_graph ==
    [p \in {"A", "B", "C", "D", "E"} |->
        IF p = "A" THEN <<"B", "C">>
        ELSE IF p = "B" THEN <<"C">>
        ELSE IF p = "C" THEN <<"A">>
        ELSE IF p = "D" THEN <<"C">>
        ELSE <<"A", "D">>]

\* tolerance 1e-6 is the default of page_rank
DefaultTolerance == Rat(1, 1000000)
ExampleTolerances == {DefaultTolerance, Rat(1, 10000)}
ExampleBudgets == {10, DefaultMaxIterations}

\* entry of page_rank up to the loop (lines 20-23)
Call_page_rank_decimal(mode, maxit, t) ==
    /\ pc = "idle"
    /\ fn' = "page_rank"
    /\ graph0' = graph
    /\ damping' = Rat(17, 20)
    /\ max_iter' = maxit
    /\ tol' = t
    /\ topic_vector' = EmptyMap
    /\ rounding' = mode
    /\ nodes' = {}
    /\ out_degree' = EmptyMap
    /\ pc' = "running"
    /\ exc' = "none"
    /\ ranks' = FxInitialRanks(DOMAIN graph, mode)
    /\ prev_ranks' = EmptyMap
    /\ it' = 0
    /\ diff' = 0
    /\ stopped' = FALSE
    /\ result' = EmptyMap
    /\ UNCHANGED <<graph, vecvars, appvars>>

\* one iteration of the for loop of page_rank (lines 25-56)
PageRankIterDecimal ==
    /\ pc = "running"
    /\ fn = "page_rank"
    /\ ~LoopDone(it, max_iter, stopped)
    /\ \E r \in {FxPageRankPass(graph, ranks, damping, rounding)} :
          IF r.exc # "none"
          THEN /\ pc' = "raised"
               /\ exc' = r.exc
               /\ UNCHANGED <<ranks, prev_ranks, it, diff, stopped>>
          ELSE /\ ranks' = r.ranks
               /\ prev_ranks' = ranks
               /\ diff' = r.diff
               /\ it' = it + 1
               /\ stopped' = (r.diff < FxOf(tol, rounding))
               /\ UNCHANGED <<pc, exc>>
    /\ UNCHANGED <<graph, graph0, fn, args, result, vecvars, appvars>>

InitExample ==
    /\ graph = example_graph
    /\ NoFrame
    /\ pages = EmptyMap
    /\ keywords = <<>>
    /\ NoApps

NextExample ==
    \/ \E mode \in Roundings, maxit \in ExampleBudgets, t \in ExampleTolerances :
          Call_page_rank_decimal(mode, maxit, t)
    \/ PageRankIterDecimal
    \/ PageRankReturn
    \/ Finish

SpecExample == InitExample /\ [][NextExample]_vars

(* --------------------------- WebCrawler.crawl ------------------------- *)
\* src/IR/Assignment4/wc.py.  The web is what the crawler sees of it: for
\* each URL the set of links _extract_links returns for its page.  A GET
\* request succeeds or fails as the network decides, each time anew; a
\* response with an empty body counts as a failure (if html:).
Urls == {"u1", "u2", "u3"}
start_url == "u1"

Webs == [Urls -> SUBSET Urls]

\* the orders in which "for link in new_links" can list a set
Perms(S) == {f \in [1..Cardinality(S) -> S] :
                \A i, j \in 1..Cardinality(S) : f[i] = f[j] => i = j}

\* mutant: the page limit is compared with <=
LoopCondition_OffByOne(q, v, m) == Len(q) > 0 /\ Cardinality(v) <= m

\* while self.to_crawl and len(self.visited) < self.max_pages
LoopCondition(q, v, m) == Len(q) > 0 /\ Cardinality(v) < m

\* WebCrawler(start_url, max_pages): __init__
InitCrawl ==
    /\ graph = EmptyMap
    /\ NoFrame
    /\ pages = EmptyMap
    /\ keywords = <<>>
    /\ web \in Webs
    /\ max_pages \in 0..MaxPages
    /\ to_crawl = <<start_url>>
    /\ visited = {}
    /\ requests = [u \in Urls |-> 0]
    /\ NoLog
    /\ NoWifi
    /\ NoPass

\* entry of crawl (lines 93-94)
Call_crawl ==
    /\ pc = "idle"
    /\ fn' = "crawl"
    /\ pc' = "running"
    /\ UNCHANGED <<graph, graph0, args, ranks, prev_ranks, it, diff, stopped, result, exc,
                   vecvars, appvars>>

\* mutant: a URL whose fetch failed is put back at the end of the frontier
CrawlIter_RetryFailed ==
    /\ pc = "running"
    /\ fn = "crawl"
    /\ LoopCondition(to_crawl, visited, max_pages)
    /\ LET url == Head(to_crawl)
           rest == Tail(to_crawl)
       IN IF url \in visited
          THEN /\ to_crawl' = rest
               /\ UNCHANGED <<visited, requests>>
          ELSE /\ requests' = [requests EXCEPT ![url] = IF @ < MaxPages + 2 THEN @ + 1 ELSE @]
               /\ \E html \in BOOLEAN :
                     IF html
                     THEN /\ visited' = visited \cup {url}
                          /\ \E new_links \in Perms(web[url] \ (visited \cup {url})) :
                                to_crawl' = rest \o new_links
                     ELSE /\ to_crawl' = Append(rest, url)
                          /\ UNCHANGED visited
    /\ UNCHANGED <<graph, graph0, pc, fn, args, ranks, prev_ranks, it, diff, stopped,
                   result, exc, vecvars, web, max_pages, logvars, wifivars, passvars>>

\* one iteration of the while loop of crawl (lines 97-118), with its call
\* of _fetch_page and, after a successful fetch, of _extract_links
CrawlIter ==
    /\ pc = "running"
    /\ fn = "crawl"
    /\ LoopCondition(to_crawl, visited, max_pages)
    /\ LET url == Head(to_crawl)
           rest == Tail(to_crawl)
       IN IF url \in visited
          THEN /\ to_crawl' = rest
               /\ UNCHANGED <<visited, requests>>
          ELSE /\ requests' = [requests EXCEPT ![url] = @ + 1]
               /\ \E html \in BOOLEAN :
                     IF html
                     THEN /\ visited' = visited \cup {url}
                          /\ \E new_links \in Perms(web[url] \ (visited \cup {url})) :
                                to_crawl' = rest \o new_links
                     ELSE /\ to_crawl' = rest
                          /\ UNCHANGED visited
    /\ UNCHANGED <<graph, graph0, pc, fn, args, ranks, prev_ranks, it, diff, stopped,
                   result, exc, vecvars, web, max_pages, logvars, wifivars, passvars>>

\* the loop condition is false: return self.visited (line 120)
CrawlReturn ==
    /\ pc = "running"
    /\ fn = "crawl"
    /\ ~LoopCondition(to_crawl, visited, max_pages)
    /\ result' = visited
    /\ pc' = "returned"
    /\ UNCHANGED <<graph, graph0, fn, args, ranks, prev_ranks, it, diff, stopped, exc,
                   vecvars, appvars>>

NextCrawl == Call_crawl \/ CrawlIter \/ CrawlReturn

SpecCrawl == InitCrawl /\ [][NextCrawl]_vars

\* crawl is one thread that never waits for anything but its own requests
\* and sleeps, which end: a step that can be taken is taken
LiveCrawl == InitCrawl /\ [][NextCrawl]_vars /\ WF_vars(NextCrawl)

(* ------------------------------ LogAnalyzer --------------------------- *)
\* src/CSDF/A5/log.py.  A log line carries "Mon DD HH:MM:SS" and no year.
\* A timestamp is modelled by the day of the year and the second of the day
\* it names, and by whether datetime.strptime(..., "%b %d %H:%M:%S") accepts
\* it: strptime assumes the year 1900 and so rejects "Feb 29".
Stamp(day, sec) == [day |-> day, sec |-> sec, parses |-> TRUE]
LeapDayStamp == [day |-> 3, sec |-> 0, parses |-> FALSE]

\* SecurityEvent(timestamp, event_type, details)
SecurityEvent(timestamp, event_type, details) ==
    [timestamp |-> timestamp, event_type |-> event_type, details |-> details]

LogIps == {"ip1", "ip2"}
LogUsers == {"root", "bob"}
EventTypes == {"failed_login", "invalid_user", "accepted_login"}

\* the events analyze_line hands to process_event
LogEvents ==
    {SecurityEvent(ts, "failed_login", <<"root", "ip1">>) :
        ts \in {Stamp(1, 0), Stamp(1, 30), Stamp(1, 61), Stamp(2, 30), LeapDayStamp}}
    \cup {SecurityEvent(Stamp(1, 30), "invalid_user", <<"bob", "ip1">>),
          SecurityEvent(Stamp(1, 0), "failed_login", <<"bob", "ip2">>),
          SecurityEvent(Stamp(1, 30), "accepted_login", <<"bob", "ip1">>)}

\* datetime.strptime(e.timestamp, "%b %d %H:%M:%S"), in seconds
strptime(timestamp) == timestamp.day * SecondsPerDay + timestamp.sec

\* timedelta.seconds of a difference of d seconds: the days are dropped
TimedeltaSeconds(d) == d % SecondsPerDay

\* is_rapid_succession(events)
is_rapid_succession(evs) ==
    IF Len(evs) < 2 THEN FALSE
    ELSE IF \E i \in 1..Len(evs) : ~evs[i].timestamp.parses THEN FALSE
    ELSE TimedeltaSeconds(strptime(evs[Len(evs)].timestamp) - strptime(evs[1].timestamp))
            <= RapidSeconds

\* LogAnalyzer(): __init__; a defaultdict is a function with its default
\* value for the keys not yet written
InitLog ==
    /\ graph = EmptyMap
    /\ NoFrame
    /\ pages = EmptyMap
    /\ keywords = <<>>
    /\ NoCrawler
    /\ NoPass
    /\ events = [t \in EventTypes |-> <<>>]
    /\ ip_activity = [ip \in LogIps |-> <<>>]
    /\ user_activity = [u \in LogUsers |-> <<>>]
    /\ suspicious_ips = {}
    /\ attack_patterns = [p \in {"rapid_attempts", "sensitive_user_attempt"} |-> 0]
    /\ NoWifi

\* the events given so far
EventsGiven == Len(events["failed_login"]) + Len(events["invalid_user"])
                  + Len(events["accepted_login"])

\* process_event(event) (lines 77-103)
process_event(event) ==
    /\ pc = "idle"
    /\ EventsGiven < MaxEvents
    /\ events' = [events EXCEPT ![event.event_type] = Append(@, event)]
    /\ IF event.event_type \in {"failed_login", "invalid_user"}
       THEN LET user == event.details[1]
                ip == event.details[2]
                activity == Append(ip_activity[ip], event)
                recent == SubSeq(activity, Len(activity) - 2, Len(activity))
                rapid == Len(activity) >= 3 /\ is_rapid_succession(recent)
                sensitive == user \in {"root", "admin", "administrator"}
            IN /\ ip_activity' = [ip_activity EXCEPT ![ip] = activity]
               /\ suspicious_ips' = IF rapid THEN suspicious_ips \cup {ip}
                                     ELSE suspicious_ips
               /\ user_activity' = [user_activity EXCEPT ![user] = Append(@, event)]
               /\ attack_patterns' =
                     [attack_patterns EXCEPT
                        !["rapid_attempts"] = IF rapid THEN @ + 1 ELSE @,
                        !["sensitive_user_attempt"] = IF sensitive THEN @ + 1 ELSE @]
       ELSE UNCHANGED <<ip_activity, user_activity, suspicious_ips, attack_patterns>>
    /\ UNCHANGED <<graph, graph0, pc, fn, args, ranks, prev_ranks, it, diff, stopped,
                   result, exc, vecvars, crawlvars, wifivars, passvars>>

NextLog == \E event \in LogEvents : process_event(event)

SpecLog == InitLog /\ [][NextLog]_vars

(* ---------------------------- analyze_log_file ------------------------ *)
\* src/CSDF/A3/wificode.py.  A line of the log is modelled by the time its
\* timestamp names (seconds, all in the year _parse_ts_with_year appends), the
\* MAC address MAC_REGEX finds in it ("" when it finds none) and the
\* keywords of SUSPICIOUS_KEYWORDS its text contains.
WifiLine(ts, mac, kws) == [ts |-> ts, mac |-> mac, kws |-> kws]

\* SUSPICIOUS_KEYWORDS, in the order the dictionary is iterated
KeywordOrder == <<"deauthenticated", "disassociated", "failed authentication",
                  "authentication with", "probe request", "rogue ap">>

SUSPICIOUS_KEYWORDS ==
    [k \in {KeywordOrder[i] : i \in 1..Len(KeywordOrder)} |->
        CASE k = "deauthenticated" -> "Potential Deauth Attack"
          [] k = "disassociated" -> "Unexpected Disconnection"
          [] k = "failed authentication" -> "Failed Connection Attempt"
          [] k = "authentication with" -> "Authentication timeout/failed"
          [] k = "probe request" -> "Network Discovery Attempt"
          [] k = "rogue ap" -> "Possible Rogue Access Point"]

\* the descriptions whose lower case contains 'fail', 'authentication' or
\* 'timeout' (line 74)
FailureDescriptions == {"Failed Connection Attempt", "Authentication timeout/failed"}

\* the first keyword, in dictionary order, the line contains; 0 when none:
\* the inner for loop breaks at the first match (lines 47-49, 77)
FirstKeyword(line) ==
    IF \E i \in 1..Len(KeywordOrder) : KeywordOrder[i] \in line.kws
    THEN CHOOSE i \in 1..Len(KeywordOrder) :
            /\ KeywordOrder[i] \in line.kws
            /\ \A h \in 1..(i - 1) : KeywordOrder[h] \notin line.kws
    ELSE 0

\* the description of a line, "" when no keyword matches
Description(line) ==
    IF FirstKeyword(line) = 0 THEN ""
    ELSE SUSPICIOUS_KEYWORDS[KeywordOrder[FirstKeyword(line)]]

WifiMacs == {"m1", "m2"}

WifiLines ==
    {WifiLine(ts, "m1", {"failed authentication"}) : ts \in {0, 30, 60, 61}}
    \cup {WifiLine(30, "m1", {"authentication with"}),
          WifiLine(30, "m1", {"deauthenticated", "failed authentication"}),
          WifiLine(0, "m2", {"failed authentication"}),
          WifiLine(0, "", {"failed authentication"}),
          WifiLine(30, "m1", {})}

\* the while loop of line 89: the first index i with times[j] - times[i] <= window
RECURSIVE WindowStart(_, _, _, _)
WindowStart(times, i, j, window) ==
    IF times[j] - times[i] > window THEN WindowStart(times, i + 1, j, window) ELSE i

\* line 91: (j - i + 1) >= fail_threshold
ThresholdReached(count, threshold) == count >= threshold

\* the for loop over j (lines 88-93): TRUE when it adds the MAC to blocked
RECURSIVE WindowScan(_, _, _, _, _)
WindowScan(times, i, j, threshold, window) ==
    IF j > Len(times) THEN FALSE
    ELSE LET i2 == WindowStart(times, i, j, window)
         IN IF ThresholdReached(j - i2 + 1, threshold) THEN TRUE
            ELSE WindowScan(times, i2, j + 1, threshold, window)

\* lines 83-93
BlockedMacs(failures, threshold, minutes) ==
    {mac \in DOMAIN failures :
        WindowScan(SortSeq(failures[mac], <), 1, 1, threshold, minutes * SecondsPerMinute)}

InitWifi ==
    /\ graph = EmptyMap
    /\ NoFrame
    /\ pages = EmptyMap
    /\ keywords = <<>>
    /\ NoApps

\* entry of analyze_log_file(log_file_path, output_csv_path, blocked_out,
\* fail_threshold, window_minutes) (lines 34-45)
Call_analyze_log_file(threshold, minutes) ==
    /\ pc = "idle"
    /\ fn' = "analyze_log_file"
    /\ pc' = "reading"
    /\ fail_threshold' = threshold
    /\ window_minutes' = minutes
    /\ wifi_log' = <<>>
    /\ forensic_events' = <<>>
    /\ mac_failures' = [m \in WifiMacs |-> <<>>]
    /\ UNCHANGED <<graph, graph0, args, ranks, prev_ranks, it, diff, stopped, result, exc,
                   vecvars, crawlvars, logvars, passvars, blocked, summary>>

\* one iteration of the loop over the lines of the file (lines 46-77)
ReadLine(line) ==
    /\ pc = "reading"
    /\ fn = "analyze_log_file"
    /\ Len(wifi_log) < MaxLines
    /\ wifi_log' = Append(wifi_log, line)
    /\ IF FirstKeyword(line) # 0
       THEN /\ forensic_events' =
                  Append(forensic_events,
                         [Timestamp |-> line.ts, Line |-> Len(wifi_log) + 1,
                          MAC |-> line.mac, Description |-> Description(line)])
            /\ mac_failures' =
                  IF Description(line) \in FailureDescriptions /\ line.mac # ""
                  THEN [mac_failures EXCEPT ![line.mac] = Append(@, line.ts)]
                  ELSE mac_failures
       ELSE UNCHANGED <<forensic_events, mac_failures>>
    /\ UNCHANGED <<graph, graph0, pc, fn, args, ranks, prev_ranks, it, diff, stopped,
                   result, exc, vecvars, crawlvars, logvars, passvars, fail_threshold,
                   window_minutes, blocked, summary>>

\* the end of the file: the detection of lines 82-93, the two files written
\* (they hold what forensic_events and blocked hold) and the summary returned
\* (lines 95-129)
DetectAndReturn ==
    /\ pc = "reading"
    /\ fn = "analyze_log_file"
    /\ blocked' = BlockedMacs(mac_failures, fail_threshold, window_minutes)
    /\ summary' = [events |-> Len(forensic_events), blocked |-> blocked']
    /\ pc' = "returned"
    /\ UNCHANGED <<graph, graph0, fn, args, ranks, prev_ranks, it, diff, stopped, result,
                   exc, vecvars, crawlvars, logvars, passvars, wifi_log, fail_threshold,
                   window_minutes, forensic_events, mac_failures>>

NextWifi ==
    \/ \E threshold \in 1..MaxThreshold, minutes \in 1..MaxWindow :
          Call_analyze_log_file(threshold, minutes)
    \/ \E line \in WifiLines : ReadLine(line)
    \/ DetectAndReturn

SpecWifi == InitWifi /\ [][NextWifi]_vars

(* -------------------- build_topic_vector on its own -------------------- *)
InitVec ==
    /\ graph = EmptyMap
    /\ NoFrame
    /\ pages \in PageMaps
    /\ keywords \in KeywordLists
    /\ NoApps

Call_build_topic_vector ==
    /\ pc = "idle"
    /\ fn' = "build_topic_vector"
    /\ LET r == build_topic_vector(pages, keywords)
       IN IF r.exc # "none"
          THEN pc' = "raised" /\ exc' = r.exc /\ result' = EmptyMap
          ELSE pc' = "returned" /\ exc' = "none" /\ result' = r.value
    /\ UNCHANGED <<graph, graph0, args, ranks, prev_ranks, it, diff, stopped, vecvars, appvars>>

NextVec == Call_build_topic_vector

SpecVec == InitVec /\ [][NextVec]_vars

(* ============================== properties ============================ *)
Solver == fn \in {"page_rank", "topic_pagerank"}

Ended == pc \in {"returned", "raised"}

\* the nodes the running call ranks, and the weight it gives each in a jump
RankedNodes == IF fn = "topic_pagerank" THEN nodes ELSE DOMAIN graph0

Teleport(p) == IF fn = "topic_pagerank" THEN Get(topic_vector, p)
               ELSE Rat(1, Cardinality(RankedNodes))

\* the teleportation weights are non-negative and sum to 1 over the nodes
ValidTeleport ==
    /\ \A p \in RankedNodes : RLe(Zero, Teleport(p))
    /\ RSum([p \in RankedNodes |-> Teleport(p)], RankedNodes) = One

\* the link targets of a graph
Targets(g) == UNION {{g[k][i] : i \in 1..Len(g[k])} : k \in DOMAIN g}

\* C1: the rank vector a solver returns for a non-empty graph and a teleport
\* vector of non-negative weights summing to 1 over the nodes sums to 1
C1_ReturnedRanksSumToOne ==
    (Solver /\ pc = "returned" /\ RankedNodes # {} /\ ValidTeleport)
        => /\ DOMAIN result = RankedNodes
           /\ RSum(result, DOMAIN result) = One

\* C1 happens: topic_pagerank returned after two passes over a graph with a
\* dangling node and a node that is not dangling, under a biased teleport
C1_Witness ==
    /\ fn = "topic_pagerank" /\ pc = "returned" /\ it >= 2
    /\ ValidTeleport
    /\ \E n, m \in nodes : out_degree[n] = 0 /\ out_degree[m] > 0
                           /\ topic_vector[n] # topic_vector[m]
    /\ RSum(result, DOMAIN result) = One

\* C2: a graph with a link to an id that is no key is ranked without an
\* exception and the result has an entry for every key and every link target
C2_LinkTargetsAreRanked ==
    (Solver /\ Ended /\ ~(Targets(graph0) \subseteq DOMAIN graph0))
        => /\ pc = "returned"
           /\ DOMAIN result = DOMAIN graph0 \cup Targets(graph0)

\* the teleportation vector gives every node 1/N
UniformTeleport == \A p \in nodes : Get(topic_vector, p) = Rat(1, Cardinality(nodes))

\* C3: topic_pagerank with the uniform teleportation vector returns what
\* page_rank returns for the same graph, damping, tolerance and budget, after
\* the same number of passes (and raises only where page_rank raises)
C3_UniformTopicEqualsPageRank ==
    (fn = "topic_pagerank" /\ Ended /\ UniformTeleport)
        => LET pr == page_rank(graph0, damping, max_iter, tol)
           IN IF pc = "returned"
              THEN pr.exc = "none" /\ pr.ranks = result /\ pr.it = it
              ELSE pr.exc # "none"

\* C3 happens: a uniform run over two nodes, one dangling, one with a link
\* listed twice, that made two passes and whose ranks are not all equal
C3_Witness ==
    /\ fn = "topic_pagerank" /\ pc = "returned" /\ UniformTeleport /\ it >= 2
    /\ \E n, m \in nodes : /\ out_degree[n] = 0 /\ out_degree[m] >= 2
                           /\ result[n] # result[m]
    /\ page_rank(graph0, damping, max_iter, tol).ranks = result

\* C4: with teleport weights >= 0 every rank is >= 0 after every pass and in
\* the result
C4_RanksNonNegative ==
    (Solver /\ \A p \in RankedNodes : RLe(Zero, Teleport(p)))
        => /\ \A n \in DOMAIN ranks : RLe(Zero, ranks[n])
           /\ \A n \in DOMAIN result : RLe(Zero, result[n])

\* C4 happens: after a pass one node has rank 0 and another a positive rank
C4_Witness ==
    /\ Solver /\ it >= 1
    /\ \E n, m \in DOMAIN ranks : ranks[n] = Zero /\ RLt(Zero, ranks[m])

\* C5: a call of a solver ends, and it makes at most max_iter passes
C5_EndsWithinBudget ==
    /\ [](Solver => it <= max_iter)
    /\ (pc = "running") ~> (pc # "running")

\* C5 happens: a call returned with its budget of two or more passes used up
\* and the diff of the last pass not below the tolerance
C5_Witness ==
    /\ Solver /\ pc = "returned" /\ max_iter >= 2 /\ it = max_iter
    /\ ~stopped /\ RLe(tol, diff)

\* C6: with the budget used up and no pass below the tolerance the call does
\* not raise, and it returns the ranks of the last pass
C6_BudgetUsedUpReturnsLastRanks ==
    (Solver /\ ValidTeleport /\ max_iter >= 1 /\ it = max_iter /\ ~stopped)
        => /\ pc # "raised" /\ exc = "none"
           /\ pc = "returned" => /\ result = ranks
                                 /\ L1Diff(result, prev_ranks, DOMAIN result) = diff

\* C6 happens: topic_pagerank returned after max_iter >= 2 passes, none below
\* the tolerance, and the last pass changed the ranks
C6_Witness ==
    /\ fn = "topic_pagerank" /\ ValidTeleport /\ pc = "returned"
    /\ max_iter >= 2 /\ it = max_iter /\ ~stopped
    /\ result = ranks /\ result # prev_ranks

NoMatch == \A pid \in DOMAIN pages : ~Matches(pages, keywords, pid)

C9_NoMatchGivesUniform ==
    (fn = "build_topic_vector" /\ Ended /\ NoMatch)
        => /\ pc = "returned"
           /\ DOMAIN result = DOMAIN pages
           /\ \A pid \in DOMAIN pages :
                 /\ RMul(result[pid], Rat(Cardinality(DOMAIN pages), 1)) = One
                 /\ result[pid] # Zero

\* C9 happens: two or more pages, a keyword, and no page matches it
C9_Witness ==
    /\ fn = "build_topic_vector" /\ pc = "returned" /\ NoMatch
    /\ Cardinality(DOMAIN pages) >= 2 /\ Len(keywords) > 0

Matching == {pid \in DOMAIN pages : Matches(pages, keywords, pid)}

\* C10: when some page matches, each of the m matching pages gets 1/m, every
\* other page 0, every page has an entry and the weights sum to 1
C10_MatchesShareTheWeight ==
    (fn = "build_topic_vector" /\ Ended /\ Matching # {})
        => /\ pc = "returned"
           /\ DOMAIN result = DOMAIN pages
           /\ \A pid \in DOMAIN pages :
                 result[pid] = IF pid \in Matching THEN Rat(1, Cardinality(Matching))
                               ELSE Zero
           /\ RSum(result, DOMAIN result) = One

\* C10 happens: two pages match and a third does not
C10_Witness ==
    /\ fn = "build_topic_vector" /\ pc = "returned"
    /\ Cardinality(Matching) = 2 /\ Cardinality(DOMAIN pages) = 3

\* C11: when a call of a solver has returned or raised, the caller's graph
\* has the keys and the link lists it had when the call was entered
C11_GraphUnchangedByCall ==
    (Solver /\ Ended) => graph = graph0

\* C12: a call of topic_pagerank made again on the same graph object with the
\* same teleportation vector and parameters has the outcome of the call that
\* has just ended: it raises if that one raised, and returns the same ranks
C12_RepeatedCallSameOutcome ==
    (fn = "topic_pagerank" /\ Ended)
        => LET again == topic_pagerank(graph, topic_vector, damping, tol, max_iter)
           IN /\ again.exc = exc
              /\ exc = "none" => again.ranks = result

\* a run on the two-node graph with damping 0.85 and uniform teleport that
\* has stopped by convergence and returned
TwoNodeRunConverged ==
    /\ Solver /\ pc = "returned" /\ stopped
    /\ graph0 = GraphAB /\ damping = Rat(17, 20)
    /\ \A p \in RankedNodes : Teleport(p) = Half

\* |x - y| <= t
Within(x, y, t) == RLe(RAbs(RSub(x, y)), t)

\* C13 as stated: on A->[B], B->[] with uniform teleport and damping 0.85 the
\* ranks converged to are both 0.5, up to the tolerance
C13_TwoNodeRanksEqual ==
    TwoNodeRunConverged
        => /\ Within(result["A"], Half, tol)
           /\ Within(result["B"], Half, tol)

\* C13 amended: the ranks converged to are those of the fixed point
\* rank(A) = 20/57, rank(B) = 37/57, up to the tolerance, so B ranks higher
C13_TwoNodeRanksAtFixedPoint ==
    TwoNodeRunConverged
        => /\ Within(result["A"], Rat(20, 57), tol)
           /\ Within(result["B"], Rat(37, 57), tol)
           /\ RLt(result["A"], result["B"])

\* C13 happens: topic_pagerank converged on the two-node graph after four
\* passes with tolerance 1/20
C13_Witness ==
    /\ TwoNodeRunConverged /\ fn = "topic_pagerank"
    /\ tol = Rat(1, 20) /\ it = 4

\* the graph of the call has exactly one node, and that node has no links
SingleNode ==
    /\ Cardinality(DOMAIN graph0) = 1
    /\ \A n \in DOMAIN graph0 : graph0[n] = <<>>

OneMoreDiff ==
    IF fn = "page_rank" THEN PageRankPass(graph, result, damping).diff
    ELSE TopicPass(graph, nodes, out_degree, result, topic_vector, damping).diff

\* C16: when a solver has stopped because diff < tolerance, one more update
\* step made from the returned vector has a diff below the tolerance again
C16_ConvergenceIsStable ==
    (Solver /\ pc = "returned" /\ stopped /\ ValidTeleport)
        => RLt(OneMoreDiff, tol)

\* C16 happens: a solver converged at its second pass with a diff that is
\* not 0, and one more pass from the returned vector still changes it
C16_Witness ==
    /\ Solver /\ pc = "returned" /\ stopped /\ ValidTeleport
    /\ it = 2 /\ RLt(Zero, diff)
    /\ RLt(Zero, OneMoreDiff) /\ RLt(OneMoreDiff, tol)

\* C15: page_rank on the graph of main with damping 0.85, tolerance 1e-6 and
\* a budget of 100 passes stops by convergence after fewer than 100 passes,
\* and the rank it returns for C is higher than the one for D
C15_ExampleConvergesAndCOutranksD ==
    (fn = "page_rank" /\ pc = "returned" /\ graph0 = example_graph
       /\ damping = Rat(17, 20) /\ tol = DefaultTolerance
       /\ max_iter = DefaultMaxIterations)
        => /\ stopped /\ it < DefaultMaxIterations
           /\ diff < FxOf(tol, rounding)
           /\ result["C"] > result["D"]

\* C15 happens: with rounding to nearest the run converged at pass 27, as
\* the run on floats does
C15_Witness ==
    /\ fn = "page_rank" /\ pc = "returned" /\ graph0 = example_graph
    /\ tol = DefaultTolerance /\ max_iter = DefaultMaxIterations
    /\ rounding = "nearest" /\ stopped /\ it = 27
    /\ result["C"] > result["A"] /\ result["A"] > result["B"]
    /\ result["B"] > result["D"] /\ result["D"] > result["E"]

\* C17: during a crawl no URL is requested more than once
C17_NoUrlFetchedTwice ==
    fn = "crawl" => \A u \in Urls : requests[u] <= 1

\* C18: the number of visited URLs never exceeds max_pages, and once the
\* frontier is empty or the number has reached max_pages the only step of
\* the crawl is to return visited, with no further request
C18_VisitedWithinMaxPages ==
    /\ [](fn = "crawl" => /\ Cardinality(visited) <= max_pages
                          /\ pc = "returned" => result = visited)
    /\ [][(fn = "crawl" /\ pc = "running"
            /\ (to_crawl = <<>> \/ Cardinality(visited) >= max_pages))
           => (requests' = requests /\ visited' = visited /\ to_crawl' = to_crawl
               /\ pc' = "returned")]_vars

\* C18 happens: a crawl returned with max_pages = 2 pages visited while the
\* frontier still held URLs, after a request that had failed
C18_Witness ==
    /\ fn = "crawl" /\ pc = "returned"
    /\ max_pages = 2 /\ Cardinality(visited) = 2 /\ to_crawl # <<>>
    /\ \E u \in Urls : requests[u] >= 1 /\ u \notin visited

\* the time of the log line of an event, in seconds
RealTime(e) == e.timestamp.day * SecondsPerDay + e.timestamp.sec

\* three consecutive attempts of ip lie at most 60 seconds apart
ThreeWithinMinute(ip) ==
    \E i \in 1..(Len(ip_activity[ip]) - 2) :
        Abs(RealTime(ip_activity[ip][i + 2]) - RealTime(ip_activity[ip][i])) <= 60

\* C19: an IP is in suspicious_ips exactly when three consecutive failed-login
\* or invalid-user attempts of that IP lie at most 60 seconds apart
C19_SuspiciousIffThreeWithinMinute ==
    \A ip \in DOMAIN ip_activity : ip \in suspicious_ips <=> ThreeWithinMinute(ip)

\* the number of recorded failures of mac with a time in [lo, lo + window]
FailuresInWindow(mac, lo) ==
    Cardinality({k \in 1..Len(mac_failures[mac]) :
                    /\ lo <= mac_failures[mac][k]
                    /\ mac_failures[mac][k] <= lo + window_minutes * SecondsPerMinute})

\* C20: after analyze_log_file a MAC is on the blocked list exactly when, in
\* some window of window_minutes, the number of its authentication failures
\* exceeds fail_threshold
C20_BlockedIffThresholdExceeded ==
    (pc = "returned" /\ fn = "analyze_log_file") =>
        \A mac \in WifiMacs :
            mac \in blocked <=>
                \E k \in 1..Len(mac_failures[mac]) :
                    FailuresInWindow(mac, mac_failures[mac][k]) > fail_threshold

\* a pass of the running solver has been completed: prev_ranks is the vector
\* it started from and ranks the one it computed
PassDone == Solver /\ it >= 1 /\ pc \in {"running", "returned"}

\* the previous rank summed over the nodes without links
DanglingMass == RSum(prev_ranks, {n \in RankedNodes : Len(graph0[n]) = 0})

\* the update rule with inLinks(p) read as a set: one term rank(q)/outDegree(q)
\* for every node q that links to p
UpdateOverLinkSet(p) ==
    LET inLinks == {q \in RankedNodes : Count(graph0[q], p) > 0}
    IN RAdd(RMul(RSub(One, damping), Teleport(p)),
            RMul(damping,
                 RAdd(RSum([q \in inLinks |-> RDivInt(prev_ranks[q], Len(graph0[q]))],
                           inLinks),
                      RMul(DanglingMass, Teleport(p)))))

\* the update rule with one term rank(q)/outDegree(q) for every occurrence of
\* p in the links of q
UpdateOverLinkOccurrences(p) ==
    LET inLinks == {q \in RankedNodes : Count(graph0[q], p) > 0}
    IN RAdd(RMul(RSub(One, damping), Teleport(p)),
            RMul(damping,
                 RAdd(RSum([q \in inLinks |->
                              RMul(Rat(Count(graph0[q], p), 1),
                                   RDivInt(prev_ranks[q], Len(graph0[q])))],
                           inLinks),
                      RMul(DanglingMass, Teleport(p)))))

\* C21 as stated: after every pass of topic_pagerank and of page_rank the
\* new rank of every node is (1 - damping) * teleport + damping * (the sum of
\* rank(q)/outDegree(q) over the set of nodes q linking to it + the dangling
\* mass * teleport), computed from the previous vector
C21_UpdateRuleOverLinkSet ==
    PassDone => \A p \in RankedNodes : ranks[p] = UpdateOverLinkSet(p)

\* C21: after every pass of topic_pagerank and of page_rank the new rank of
\* every node is (1 - damping) * teleport + damping * (the sum of
\* rank(q)/outDegree(q), once for every occurrence of the node in the links
\* of q, + the dangling mass * teleport), computed from the previous vector,
\* a node absent from the teleportation vector having weight 0
C21_UpdateRuleOverLinkOccurrences ==
    PassDone => \A p \in RankedNodes : ranks[p] = UpdateOverLinkOccurrences(p)

\* C21 happens: topic_pagerank completed its second pass over a graph with a
\* dangling node, a node that lists a target twice and a node missing from
\* the teleportation vector, with a damping above 0
C21_Witness ==
    /\ fn = "topic_pagerank" /\ PassDone /\ it >= 2 /\ damping # Zero
    /\ \E n, m \in nodes : Len(graph0[n]) = 0 /\ \E p \in nodes : Count(graph0[m], p) >= 2
    /\ \E p \in nodes : p \notin DOMAIN topic_vector
    /\ \A p \in nodes : ranks[p] = UpdateOverLinkOccurrences(p)

\* the teleportation weights sum to 1 over the nodes
TeleportSumsToOne == RSum([p \in RankedNodes |-> Teleport(p)], RankedNodes) = One

\* C22: after every pass of page_rank, and of topic_pagerank with a
\* teleportation vector summing to 1 over the nodes, the rank vector sums to 1
C22_RankMassConserved ==
    (PassDone /\ TeleportSumsToOne) => RSum(ranks, DOMAIN ranks) = One

\* C22 happens: a second pass was completed over a graph with a self-link, a
\* target listed twice and a dangling node, and the ranks are not uniform
C22_Witness ==
    /\ PassDone /\ TeleportSumsToOne /\ it >= 2 /\ damping # Zero
    /\ \E n, m \in RankedNodes :
          /\ Count(graph0[n], n) > 0
          /\ \E p \in RankedNodes : Count(graph0[n], p) >= 2
          /\ Len(graph0[m]) = 0
          /\ ranks[n] # ranks[m]
    /\ RSum(ranks, DOMAIN ranks) = One

\* C23: the solver leaves its loop at the first pass whose L1 diff between
\* the new and the previous vector is strictly below the tolerance (a diff
\* equal to the tolerance does not stop it), makes no pass after it, and
\* returns the vector of that pass (with teleport weights summing to 1, so
\* that the final normalisation of topic_pagerank divides by 1)
C23_StopsAtFirstPassBelowTolerance ==
    /\ [](PassDone =>
            /\ diff = L1Diff(ranks, prev_ranks, RankedNodes)
            /\ stopped <=> RLt(diff, tol)
            /\ 1 <= it /\ it <= max_iter)
    /\ []((Solver /\ pc = "returned" /\ stopped /\ TeleportSumsToOne) => result = ranks)
    /\ [][(Solver /\ Solver' /\ it' # it) =>
             /\ it' = it + 1
             /\ ~stopped
             /\ it = 0 \/ ~RLt(diff, tol)]_vars
    /\ [][(Solver /\ pc = "running" /\ stopped) =>
             (pc' = "returned" /\ ranks' = ranks /\ it' = it)]_vars

\* C23 happens: the first pass had a diff equal to the tolerance and did not
\* stop the solver, the second had a smaller one and did, and the vector
\* returned is the one of the second pass, not of the first
C23_Witness ==
    /\ Solver /\ pc = "returned" /\ stopped /\ it = 2 /\ max_iter >= 2
    /\ L1Diff(prev_ranks, InitialRanks(RankedNodes).ranks, RankedNodes) = tol
    /\ RLt(diff, tol)
    /\ result = ranks
    /\ result # prev_ranks

\* a pass is under way, between its first and its last statement
MidPass == Solver /\ pc = "running" /\ cursor >= 1

\* C24: updates are synchronous: while a pass is under way ranks is not
\* written, it is replaced as a whole by new_ranks in the last step of the
\* pass, and the vector, the dangling mass and the diff of a pass are those
\* computed from the complete vector of the pass before
C24_UpdatesAreSynchronous ==
    /\ [](PassDone =>
            /\ \A p \in RankedNodes : ranks[p] = UpdateOverLinkOccurrences(p)
            /\ diff = L1Diff(ranks, prev_ranks, RankedNodes))
    /\ []((MidPass /\ fn = "topic_pagerank") =>
            dangling_sum = RSum(ranks, {n \in nodes : Len(graph0[n]) = 0}))
    /\ [][MidPass =>
             \/ ranks' = ranks
             \/ /\ cursor = Len(KeysOf(graph)) + 1
                /\ cursor' = 0
                /\ DOMAIN new_ranks = RankedNodes
                /\ ranks' = new_ranks
                /\ prev_ranks' = ranks]_vars

\* C24 happens: a second pass was completed in which the first node of the
\* loop, whose rank the first pass had changed, links to a later node, so
\* that a pass reading the values it has just written would give other ranks
C24_Witness ==
    /\ PassDone /\ it = 2 /\ cursor = 0 /\ damping # Zero
    /\ RankedNodes = {"A", "B"}
    /\ Count(graph0["A"], "B") > 0
    /\ prev_ranks["A"] # ranks["A"]
    /\ prev_ranks["A"] # Rat(1, 2)
    /\ \A p \in RankedNodes : ranks[p] = UpdateOverLinkOccurrences(p)

\* no node links to p, p itself included
NoInbound(p) == \A q \in RankedNodes : Count(graph0[q], p) = 0

\* C25: in topic_pagerank a node with teleport weight 0 (or missing from the
\* vector) and no inbound links has rank exactly 0 after every pass and in
\* the result, also when the graph has dangling nodes
C25_TopicBiasSurvivesSinks ==
    (fn = "topic_pagerank" /\ PassDone) =>
        \A p \in nodes :
            (Get(topic_vector, p) = Zero /\ NoInbound(p)) =>
                /\ ranks[p] = Zero
                /\ pc = "returned" => result[p] = Zero

\* C25 happens: topic_pagerank returned after two passes over a graph with a
\* dangling node that held rank, and a node without teleport weight and
\* inbound links got 0 while another node got more
C25_Witness ==
    /\ fn = "topic_pagerank" /\ PassDone /\ pc = "returned" /\ it >= 2
    /\ damping # Zero
    /\ \E p, n \in nodes :
          /\ Get(topic_vector, p) = Zero /\ NoInbound(p)
          /\ result[p] = Zero
          /\ Len(graph0[n]) = 0 /\ RLt(Zero, prev_ranks[n])
          /\ RLt(Zero, result[n])

\* the graph is not empty and no node has a link
AllDangling == RankedNodes # {} /\ \A n \in RankedNodes : Len(graph0[n]) = 0

LinksReturned == fn = "build_incoming_links" /\ pc = "returned"

\* C27: for a graph whose link targets are all keys the index returned by
\* build_incoming_links has an entry for every node, incoming[p] lists q once
\* for every occurrence of p in graph[q] and nothing else, it is what the
\* loops of the function build, and another call on the same graph returns
\* the same index
C27_IncomingIsPureFunctionOfLinks ==
    /\ []((LinksReturned /\ Targets(graph0) \subseteq DOMAIN graph0) =>
            /\ DOMAIN result[1] = DOMAIN graph0
            /\ \A p \in DOMAIN graph0 : \A q \in Ids :
                  Count(result[1][p], q) = IF q \in DOMAIN graph0
                                           THEN Count(graph0[q], p) ELSE 0
            /\ result[1] = IncomingLoop(graph0, KeysOf(graph0),
                                         [n \in DOMAIN graph0 |-> <<>>], 1))
    /\ [][(LinksReturned /\ LinksReturned') => result' = result]_vars

\* C27 happens: the index was returned for a graph in which a node lists a
\* target twice and another node has no inbound link
C27_Witness ==
    /\ LinksReturned
    /\ \E p, q \in DOMAIN graph0 :
          /\ Count(graph0[q], p) >= 2
          /\ Len(result[1][p]) >= 2
          /\ result[1][q] = <<>>

\* C28: when build_incoming_links returns normally the graph is as it was
\* before the call, every link target is a key of it, and the node list
\* returned is the list of its keys
C28_NormalReturnLeavesGraph ==
    LinksReturned =>
        /\ graph = graph0
        /\ Targets(graph) \subseteq DOMAIN graph
        /\ {result[2][i] : i \in 1..Len(result[2])} = DOMAIN graph
        /\ Len(result[2]) = Cardinality(DOMAIN graph)

\* C28 happens: the call returned normally on a graph with links, one that
\* an earlier call, which raised, had completed with a key for a target
C28_Witness ==
    /\ LinksReturned
    /\ graph = graph0
    /\ "C" \in DOMAIN graph
    /\ \E q \in DOMAIN graph : Count(graph[q], "C") > 0

\* total_diff / diff of the pass that follows the last one, made from ranks
FollowingDiff ==
    IF fn = "page_rank" THEN PageRankPass(graph0, ranks, damping).diff
    ELSE TopicPass(graph0, nodes, out_degree, ranks, topic_vector, damping).diff

\* C29: with teleport weights that are non-negative and sum to 1, the diff
\* of a pass is at most damping times the diff of the pass before it, both
\* for the passes the solver makes and for a pass made after it has stopped,
\* so a diff below the tolerance is followed by diffs below the tolerance
C29_DiffContracts ==
    /\ []((PassDone /\ ValidTeleport) =>
            /\ RLe(FollowingDiff, RMul(damping, diff))
            /\ RLt(diff, tol) => RLt(FollowingDiff, tol))
    /\ [][(PassDone /\ ValidTeleport /\ PassDone' /\ it' = it + 1) =>
             RLe(diff', RMul(damping, diff))]_vars

\* C29 happens: the second pass over a graph with a dangling node and a
\* node with links had a diff that is not 0 and at most damping times the
\* diff of the first pass
C29_Witness ==
    /\ PassDone /\ ValidTeleport /\ it = 2 /\ damping # Zero
    /\ \E n, m \in RankedNodes : Len(graph0[n]) = 0 /\ Len(graph0[m]) > 0
    /\ RLt(Zero, diff)
    /\ RLe(diff, RMul(damping, L1Diff(prev_ranks, InitialRanks(RankedNodes).ranks,
                                       RankedNodes)))
    /\ RLt(Zero, FollowingDiff)

\* C30: for every set of pages and links, cycles and self-links included,
\* and whichever requests fail, crawl returns, with the frontier empty or
\* with max_pages pages visited
C30_CrawlTerminates ==
    <>(pc = "returned" /\ (to_crawl = <<>> \/ Cardinality(visited) >= max_pages))

\* C30 happens: crawl returned with an empty frontier on pages that link to
\* each other in a cycle and to themselves, after a request for a page had
\* failed twice
C30_Witness ==
    /\ fn = "crawl" /\ pc = "returned" /\ to_crawl = <<>>
    /\ Cardinality(visited) < max_pages
    /\ \E u, v \in Urls : /\ u # v /\ v \in web[u] /\ u \in web[v] /\ u \in web[u]
                           /\ u \in visited
    /\ \E u \in Urls : requests[u] >= 2 /\ u \notin visited

====
